---- MODULE Spec2Model ----
(***************************************************************************)
(* Model of the ingestion service (services/ingestion): one task per chain *)
(* runs _backfill once and then streams through _stream_with_failover,     *)
(* feeding every event to _handle_event, which deduplicates, rate-limits   *)
(* and persists into the in-memory store.                                  *)
(*                                                                         *)
(* Time is an integer number of ticks; one tick is 1/rate_limit_per_sec    *)
(* seconds, and every configured duration is expressed in ticks.           *)
(* Strings joined or hashed by the code are modelled as tuples of their    *)
(* parts; lower-casing is modelled by the table Lower.                     *)
(***************************************************************************)
EXTENDS Integers, Sequences, FiniteSets, TLC

\* ------------------------------------------------------------------ bounds
MaxTime == 3            \* the clock saturates here
MaxBatch == 2           \* longest list a rest_backfill call returns
MaxPrior == 1           \* transfers an earlier service instance left in the store
MaxStream == 2          \* live events the providers yield
MaxOpenFails == 4       \* stream_transfers calls that raise
MaxRestFails == 2       \* rest_backfill calls that raise
MaxStoreFails == 1      \* store calls that raise
MaxMidFails == 1        \* live sequences that raise while iterated

\* ----------------------------------------------------------- configuration
cfg ==
  [ primary_provider |-> "alchemy",
    stream_lag_seconds |-> 1,
    backfill_window_hours |-> 3,
    retry_max_attempts |-> 2,
    retry_base_seconds |-> 1,
    retry_max_seconds |-> 2,
    rate_limit_per_sec |-> 1 ]

AllChains == {"eth", "sol"}

backfill_window == cfg.backfill_window_hours

None == <<>>
Some(v) == <<v>>

\* ------------------------------------------------------------------ models
Provenance(method, request_id) ==
  [provider |-> "mock", method |-> method, request_id |-> request_id]

TransferEvent(ts, tx_hash, from_addr, to_addr, chain, amount, usd_value, prov, raw) ==
  [ ts |-> ts, tx_hash |-> tx_hash, from_addr |-> from_addr, to_addr |-> to_addr,
    chain |-> chain, token |-> "ETH", amount |-> amount, usd_value |-> usd_value,
    provenance |-> prov, raw |-> raw ]

BalanceUpdate(ts, address, chain, token, amount, usd_value, prov, raw) ==
  [ ts |-> ts, address |-> address, chain |-> chain, token |-> token,
    amount |-> amount, usd_value |-> usd_value, provenance |-> prov, raw |-> raw ]

\* The events the two providers can deliver for a chain.  n1 and n2 share an
\* identity and differ in timestamp, provenance and raw payload; n3 differs
\* from n1 only in the letter case of tx_hash; n4 is a self-transfer with a
\* negative amount.
Events(chain) ==
  IF chain = "eth"
  THEN { TransferEvent(0, "0xabc", "a", "b", chain, 1, 2, Provenance("ws", "1"), "n1"),
         TransferEvent(1, "0xabc", "a", "b", chain, 1, 2, Provenance("rest", "2"), "n2"),
         TransferEvent(0, "0xABC", "a", "b", chain, 1, 2, Provenance("rest", "3"), "n3"),
         TransferEvent(1, "0xdef", "b", "b", chain, -3, -6, Provenance("ws", "4"), "n4") }
  ELSE { TransferEvent(0, "0x111", "x", "y", chain, 5, 0, Provenance("ws", "5"), "n5") }

AllEvents == UNION {Events(c) : c \in AllChains}

\* str.lower() on the strings that occur in the model
Lower(s) ==
  CASE s = "0xABC" -> "0xabc"
    [] s = "ETH" -> "eth"
    [] OTHER -> s

Max(x, y) == IF x >= y THEN x ELSE y
Min(x, y) == IF x <= y THEN x ELSE y

\* ------------------------------------------------------- ingest_service.py
\* mutant of _jitter_delay: the min(max_seconds, ...) cap is forgotten
_jitter_delay_uncapped(base, attempt, max_seconds, jitter) ==
  LET exp == base * (2 ^ attempt)
  IN  exp + jitter

\* jitter stands for the value random.uniform(0, base) returned
_jitter_delay(base, attempt, max_seconds, jitter) ==
  LET exp == base * (2 ^ attempt)
  IN  Min(max_seconds, exp + jitter)

\* mutant of _event_key: the key leaves out tx_hash and from_addr
_event_key_no_hash(e) == <<Lower(e.chain), Lower(e.to_addr)>>

_event_key(e) ==
  <<Lower(e.chain), Lower(e.tx_hash), Lower(e.from_addr), Lower(e.to_addr)>>

\* ------------------------------------------------------------------- db.py
_tkey(e) == <<e.chain, e.tx_hash, e.from_addr, e.to_addr>>

_bkey(b) == <<Lower(b.chain), Lower(b.address), Lower(b.token)>>

\* dict assignment d[k] = v
Put(d, k, v) == [x \in DOMAIN d \cup {k} |-> IF x = k THEN v ELSE d[x]]

\* InMemoryDB.__init__
InMemoryDB == [ transfers |-> <<>>, balances |-> <<>>, _latest_ts |-> <<>> ]

\* InMemoryDB.latest_transfer_ts
latest_transfer_ts(store, chain) ==
  IF chain \in DOMAIN store._latest_ts THEN Some(store._latest_ts[chain]) ELSE None

\* mutant of insert_transfer: _latest_ts takes the timestamp of every new row
insert_transfer_last_wins(store, e) ==
  LET key == _tkey(e)
  IN  IF key \in DOMAIN store.transfers
      THEN [ inserted |-> FALSE, db |-> store ]
      ELSE [ inserted |-> TRUE,
             db |-> [ store EXCEPT
                        !.transfers = Put(@, key, e),
                        !._latest_ts = Put(@, e.chain, e.ts) ] ]

\* InMemoryDB.insert_transfer: the store afterwards and the value returned
insert_transfer(store, e) ==
  LET key == _tkey(e)
      prev == latest_transfer_ts(store, e.chain)
  IN  IF key \in DOMAIN store.transfers
      THEN [ inserted |-> FALSE, db |-> store ]
      ELSE [ inserted |-> TRUE,
             db |-> [ store EXCEPT
                        !.transfers = Put(@, key, e),
                        !._latest_ts = IF prev = None \/ e.ts > prev[1]
                                       THEN Put(@, e.chain, e.ts)
                                       ELSE @ ] ]

\* InMemoryDB.upsert_balance
upsert_balance(store, b) == [ store EXCEPT !.balances = Put(@, _bkey(b), b) ]

\* ------------------------------------------------------------------- state
VARIABLES
  chains,         \* Config.chains of this deployment
  now,            \* wall clock, in ticks
  db,             \* the InMemoryDB the service writes to
  seen_cache,     \* IngestionService._seen_cache
  rate_tokens,    \* IngestionService._rate_tokens
  refill_elapsed, \* now - IngestionService._last_refill, saturating
  counters,       \* Metrics._counters
  run_state,      \* IngestionService.run: "new", "running", "returned", "raised"
  pc,             \* position of each chain's _run_chain task
  bf,             \* locals of _backfill, per chain
  sc,             \* locals of _stream_with_failover, per chain
  he,             \* locals of _handle_event, per chain
  sleep_left,     \* ticks left of the asyncio.sleep a task is suspended in
  rest_log,       \* observation: the rest_backfill calls of each chain
  slog,           \* observation: failed opens and backoff delays of each chain
  hfail,          \* observation: the paths on which a store call raised
  submitted,      \* observation: _handle_event calls per event identity (0, 1, many)
  env             \* what the environment may still do: failures and deliveries left

svcVars == <<seen_cache, rate_tokens, refill_elapsed, counters>>
flowVars == <<pc, sc, sleep_left, slog>>
vars == <<chains, now, db, seen_cache, rate_tokens, refill_elapsed, counters,
          run_state, pc, bf, sc, he, sleep_left, rest_log, slog, hfail,
          submitted, env>>

TicksPerSecond == cfg.rate_limit_per_sec

\* IngestionService.__init__: self._primary_idx
_primary_idx == IF cfg.primary_provider = "alchemy" THEN 0 ELSE 1

_select_providers == [primary |-> _primary_idx, fallback |-> 1 - _primary_idx]

NoBackfill ==
  [ now |-> 0, last |-> None, horizon |-> 0, start |-> 0, idx |-> 0,
    events |-> <<>>, i |-> 1,
    planned |-> FALSE,       \* observation: the window has been computed
    returned |-> FALSE,      \* observation: a rest_backfill call returned
    store_empty |-> FALSE ]  \* observation: no row of the chain at plan time

NoStream ==
  [ primary |-> _primary_idx, fallback |-> 1 - _primary_idx, attempt |-> 0,
    yielded |-> FALSE ]

NoHandle == [ caller |-> "none", e |-> None, bu |-> <<>> ]

NoSlog == [ open_fails |-> 0, backoffs |-> <<>> ]

Abs(x) == IF x < 0 THEN -x ELSE x

\* mutant of BalanceLegs: the credit leg takes the amounts without abs()
BalanceLegsSigned(e) ==
  << BalanceUpdate(e.ts, e.from_addr, e.chain, e.token, -Abs(e.amount),
                   -Abs(e.usd_value), e.provenance, e.raw),
     BalanceUpdate(e.ts, e.to_addr, e.chain, e.token, e.amount,
                   e.usd_value, e.provenance, e.raw) >>

\* the two BalanceUpdates _handle_event derives from an inserted transfer
BalanceLegs(e) ==
  << BalanceUpdate(e.ts, e.from_addr, e.chain, e.token, -Abs(e.amount),
                   -Abs(e.usd_value), e.provenance, e.raw),
     BalanceUpdate(e.ts, e.to_addr, e.chain, e.token, Abs(e.amount),
                   Abs(e.usd_value), e.provenance, e.raw) >>

SeqsUpTo(S, n) == UNION {[1..k -> S] : k \in 0..n}

\* the store after an earlier service instance admitted the events of a list
RECURSIVE StoreAfter(_)
StoreAfter(events) ==
  IF events = <<>>
  THEN InMemoryDB
  ELSE LET before == StoreAfter(SubSeq(events, 1, Len(events) - 1))
           e == events[Len(events)]
           r == insert_transfer(before, e)
       IN  IF r.inserted
           THEN upsert_balance(upsert_balance(r.db, BalanceLegs(e)[1]), BalanceLegs(e)[2])
           ELSE r.db

\* the state after IngestionService(cfg, db) was constructed
Service(cs, store, budget) ==
  /\ chains = cs
  /\ now = 2
  /\ db = store
  /\ seen_cache = {}
  /\ rate_tokens = cfg.rate_limit_per_sec
  /\ refill_elapsed = 0
  /\ counters = [events_in |-> 0, events_out |-> 0]
  /\ run_state = "new"
  /\ pc = [c \in cs |-> "idle"]
  /\ bf = [c \in cs |-> NoBackfill]
  /\ sc = [c \in cs |-> NoStream]
  /\ he = [c \in cs |-> NoHandle]
  /\ sleep_left = [c \in cs |-> 0]
  /\ rest_log = [c \in cs |-> <<>>]
  /\ slog = [c \in cs |-> NoSlog]
  /\ hfail = [c \in cs |-> {}]
  /\ submitted = [k \in {_tkey(e) : e \in AllEvents} |-> 0]
  /\ env = budget

\* what the environment does in one behaviour: the events the providers hold
\* for each chain, the longest list rest_backfill returns, and how many live
\* events and failures are still to come
Environment(feed, batch, stream, open_fails, rest_fails, store_fails, mid_fails) ==
  [ feed |-> feed, batch |-> batch, stream |-> stream, open_fails |-> open_fails,
    rest_fails |-> rest_fails, store_fails |-> store_fails, mid_fails |-> mid_fails ]

\* one chain; the store is empty or was filled by an earlier instance
Init ==
  \E prior \in SeqsUpTo(Events("eth"), MaxPrior) :
    Service({"eth"}, StoreAfter(prior),
            Environment([c \in {"eth"} |-> Events(c)], MaxBatch, MaxStream, 1,
                        MaxRestFails, MaxStoreFails, MaxMidFails))

\* one chain on an empty store whose providers keep failing to open a stream
InitFailover ==
  Service({"eth"}, InMemoryDB,
          Environment([c \in {"eth"} |-> Events(c)], MaxBatch, 1, MaxOpenFails,
                      1, 1, 1))

\* two chains on an empty store, one event each
InitChains ==
  Service({"eth", "sol"}, InMemoryDB,
          Environment([c \in {"eth", "sol"} |-> {CHOOSE e \in Events(c) : e.ts = 0 /\ e.provenance.method = "ws"}],
                      1, 1, 1, 1, 1, 1))

\* two chains on an empty store whose providers fail to open often enough
\* for one chain's controller to swap
InitChainsFailover ==
  Service({"eth", "sol"}, InMemoryDB,
          Environment([c \in {"eth", "sol"} |-> {CHOOSE e \in Events(c) : e.ts = 0 /\ e.provenance.method = "ws"}],
                      1, 1, cfg.retry_max_attempts, 1, 1, 1))

\* ------------------------------------------------------------ control flow
Goto(c, label) ==
  /\ pc' = [pc EXCEPT ![c] = label]
  /\ UNCHANGED <<sc, sleep_left, slog>>

\* _backfill returns (its list of events is dropped) and _run_chain enters
\* _stream_with_failover: primary, fallback = _select_providers(); attempt = 0
EnterStream(c) ==
  /\ pc' = [pc EXCEPT ![c] = "connect"]
  /\ sc' = [sc EXCEPT ![c] = [ primary |-> _select_providers.primary,
                               fallback |-> _select_providers.fallback,
                               attempt |-> 0, yielded |-> FALSE ]]
  /\ UNCHANGED <<sleep_left, slog>>

\* the except clause of _stream_with_failover up to the sleep: the delay is
\* computed from the current attempt and the task suspends for it
StreamExcept(c, open_failed) ==
  \E jitter \in 0..cfg.retry_base_seconds :
    LET delay == _jitter_delay(cfg.retry_base_seconds, sc[c].attempt,
                               cfg.retry_max_seconds, jitter)
        entry == [ n |-> sc[c].attempt, delay |-> delay, provider |-> sc[c].primary ]
        old == slog[c].backoffs
        kept == IF old = <<>> THEN <<>> ELSE <<old[Len(old)]>>
    IN  /\ pc' = [pc EXCEPT ![c] = "backoff"]
        /\ sleep_left' = [sleep_left EXCEPT ![c] = delay]
        /\ slog' = [slog EXCEPT ![c] =
                      [ open_fails |-> IF open_failed /\ ~sc[c].yielded
                                       THEN @.open_fails + 1 ELSE @.open_fails,
                        backoffs |-> Append(kept, entry) ]]
        /\ UNCHANGED sc

\* the except clause of _backfill: continue with the next provider, and fall
\* out of the loop (and of _backfill) after the fallback
BackfillExcept(c) ==
  IF bf[c].idx = 0
  THEN /\ bf' = [bf EXCEPT ![c].idx = 1, ![c].events = <<>>, ![c].i = 1]
       /\ Goto(c, "bf_call")
  ELSE /\ bf' = [bf EXCEPT ![c].events = <<>>, ![c].i = 1]
       /\ EnterStream(c)

\* ------------------------------------------------------------ _rate_limit
\* mutant of _rate_limit: a token is taken without looking at the count
_rate_limit_unguarded(c) ==
  LET refill == (refill_elapsed * cfg.rate_limit_per_sec) \div TicksPerSecond
      tokens == IF refill > 0
                THEN Min(cfg.rate_limit_per_sec, rate_tokens + refill)
                ELSE rate_tokens
      elapsed == IF refill > 0 THEN 0 ELSE refill_elapsed
  IN  /\ refill_elapsed' = elapsed
      /\ rate_tokens' = tokens - 1
      /\ pc' = [pc EXCEPT ![c] = "h_insert"]
      /\ UNCHANGED <<sleep_left, sc, slog>>

\* one pass through _rate_limit: refill, then take a token or go to sleep
_rate_limit(c) ==
  LET refill == (refill_elapsed * cfg.rate_limit_per_sec) \div TicksPerSecond
      tokens == IF refill > 0
                THEN Min(cfg.rate_limit_per_sec, rate_tokens + refill)
                ELSE rate_tokens
      elapsed == IF refill > 0 THEN 0 ELSE refill_elapsed
  IN  /\ refill_elapsed' = elapsed
      /\ IF tokens = 0
         THEN /\ rate_tokens' = tokens
              /\ pc' = [pc EXCEPT ![c] = "h_sleep"]
              /\ sleep_left' = [sleep_left EXCEPT ![c] =
                                  TicksPerSecond \div cfg.rate_limit_per_sec]
         ELSE /\ rate_tokens' = tokens - 1
              /\ pc' = [pc EXCEPT ![c] = "h_insert"]
              /\ UNCHANGED sleep_left
      /\ UNCHANGED <<sc, slog>>

RateLimitRetry(c) ==
  /\ pc[c] = "h_sleep"
  /\ sleep_left[c] = 0
  /\ _rate_limit(c)
  /\ UNCHANGED <<chains, now, db, seen_cache, counters, run_state, bf, he,
                 rest_log, hfail, submitted, env>>

\* ----------------------------------------------------------- _handle_event
ReturnLabel(caller) == IF caller = "bf" THEN "bf_iter" ELSE "s_next"

\* mutant of HandleEntry: the admission cache is not consulted
HandleEntryNoCache(c, e, caller) ==
  LET key == _event_key(e)
  IN  /\ submitted' = [submitted EXCEPT ![_tkey(e)] = Min(@ + 1, 2)]
      /\ seen_cache' = seen_cache \cup {key}
      /\ he' = [he EXCEPT ![c] = [caller |-> caller, e |-> Some(e), bu |-> <<>>]]
      /\ _rate_limit(c)

\* _handle_event up to its first suspension point
HandleEntry(c, e, caller) ==
  LET key == _event_key(e)
  IN  /\ submitted' = [submitted EXCEPT ![_tkey(e)] = Min(@ + 1, 2)]
      /\ IF key \in seen_cache
         THEN /\ Goto(c, ReturnLabel(caller))
              /\ UNCHANGED <<seen_cache, rate_tokens, refill_elapsed, he>>
         ELSE /\ seen_cache' = seen_cache \cup {key}
              /\ he' = [he EXCEPT ![c] = [caller |-> caller, e |-> Some(e), bu |-> <<>>]]
              /\ _rate_limit(c)

\* an exception leaves _handle_event and reaches the caller's except clause
HandlerRaise(c) ==
  /\ he' = [he EXCEPT ![c] = NoHandle]
  /\ hfail' = [hfail EXCEPT ![c] = @ \cup {he[c].caller}]
  /\ IF he[c].caller = "bf"
     THEN BackfillExcept(c)
     ELSE /\ StreamExcept(c, FALSE)
          /\ UNCHANGED bf

Inc(name) == [counters EXCEPT ![name] = @ + 1]

\* mutant of InsertTransfer: the value insert_transfer returns is ignored
InsertTransferUnchecked(c) ==
  /\ pc[c] = "h_insert"
  /\ LET e == he[c].e[1]
         r == insert_transfer(db, e)
     IN  /\ db' = r.db
         /\ he' = [he EXCEPT ![c].bu = BalanceLegs(e)]
         /\ Goto(c, "h_debit")
         /\ UNCHANGED counters
  /\ UNCHANGED <<chains, now, seen_cache, rate_tokens, refill_elapsed,
                 run_state, bf, rest_log, hfail, submitted, env>>

InsertTransfer(c) ==
  /\ pc[c] = "h_insert"
  /\ LET e == he[c].e[1]
         r == insert_transfer(db, e)
     IN  /\ db' = r.db
         /\ IF r.inserted
            THEN /\ he' = [he EXCEPT ![c].bu = BalanceLegs(e)]
                 /\ Goto(c, "h_debit")
                 /\ UNCHANGED counters
            ELSE /\ he' = [he EXCEPT ![c] = NoHandle]
                 /\ counters' = Inc("events_in")
                 /\ Goto(c, ReturnLabel(he[c].caller))
  /\ UNCHANGED <<chains, now, seen_cache, rate_tokens, refill_elapsed,
                 run_state, bf, rest_log, hfail, submitted, env>>

UpsertDebit(c) ==
  /\ pc[c] = "h_debit"
  /\ db' = upsert_balance(db, he[c].bu[1])
  /\ Goto(c, "h_credit")
  /\ UNCHANGED <<chains, now, svcVars, run_state, bf, he,
                 rest_log, hfail, submitted, env>>

\* mutant of UpsertCredit: the events_out increment is forgotten
UpsertCreditNoOut(c) ==
  /\ pc[c] = "h_credit"
  /\ db' = upsert_balance(db, he[c].bu[2])
  /\ counters' = [counters EXCEPT !["events_in"] = @ + 1]
  /\ he' = [he EXCEPT ![c] = NoHandle]
  /\ Goto(c, ReturnLabel(he[c].caller))
  /\ UNCHANGED <<chains, now, seen_cache, rate_tokens,
                 refill_elapsed, run_state, bf, rest_log, hfail, submitted, env>>

UpsertCredit(c) ==
  /\ pc[c] = "h_credit"
  /\ db' = upsert_balance(db, he[c].bu[2])
  /\ counters' = [counters EXCEPT !["events_out"] = @ + 1, !["events_in"] = @ + 1]
  /\ he' = [he EXCEPT ![c] = NoHandle]
  /\ Goto(c, ReturnLabel(he[c].caller))
  /\ UNCHANGED <<chains, now, seen_cache, rate_tokens,
                 refill_elapsed, run_state, bf, rest_log, hfail, submitted, env>>

\* insert_transfer or upsert_balance raises
StoreRaises(c) ==
  /\ pc[c] \in {"h_insert", "h_debit", "h_credit"}
  /\ env.store_fails > 0
  /\ env' = [env EXCEPT !.store_fails = @ - 1]
  /\ HandlerRaise(c)
  /\ UNCHANGED <<chains, now, db, svcVars, run_state, rest_log, submitted>>

\* ---------------------------------------------------------------- _backfill
\* mutant of BackfillWindow: min() instead of max() for start
BackfillWindowMin(n, last) ==
  LET horizon == n - cfg.stream_lag_seconds
      start == Min(IF last = None THEN n - backfill_window ELSE last[1],
                   n - backfill_window)
  IN  [horizon |-> horizon, start |-> start]

\* the window _backfill computes from the clock and the last stored timestamp
BackfillWindow(n, last) ==
  LET horizon == n - cfg.stream_lag_seconds
      start == Max(IF last = None THEN n - backfill_window ELSE last[1],
                   n - backfill_window)
  IN  [horizon |-> horizon, start |-> start]

BackfillPlan(c) ==
  /\ pc[c] = "bf_plan"
  /\ LET last == latest_transfer_ts(db, c)
         w == BackfillWindow(now, last)
     IN  /\ bf' = [bf EXCEPT ![c] =
                     [ now |-> now, last |-> last, horizon |-> w.horizon,
                       start |-> w.start, idx |-> 0, events |-> <<>>, i |-> 1,
                       planned |-> TRUE, returned |-> FALSE,
                       store_empty |-> \A k \in DOMAIN db.transfers :
                                          db.transfers[k].chain # c ]]
         /\ IF w.start >= w.horizon
            THEN EnterStream(c)
            ELSE Goto(c, "bf_call")
  /\ UNCHANGED <<chains, now, db, svcVars, run_state, he, rest_log, hfail,
                 submitted, env>>

ProviderAt(c) ==
  IF bf[c].idx = 0 THEN _select_providers.primary ELSE _select_providers.fallback

\* Provider.rest_backfill: a finite list of events of the chain in [start, end)
rest_backfill(chain, start, end) ==
  SeqsUpTo({e \in env.feed[chain] : start <= e.ts /\ e.ts < end}, env.batch)

RestCall(c, raised) ==
  [ provider |-> ProviderAt(c), start |-> bf[c].start, end |-> bf[c].horizon,
    raised |-> raised ]

RestBackfillRaises(c) ==
  /\ pc[c] = "bf_call"
  /\ env.rest_fails > 0
  /\ env' = [env EXCEPT !.rest_fails = @ - 1]
  /\ rest_log' = [rest_log EXCEPT ![c] = Append(@, RestCall(c, TRUE))]
  /\ BackfillExcept(c)
  /\ UNCHANGED <<chains, now, db, svcVars, run_state, he, hfail, submitted>>

RestBackfillReturns(c) ==
  /\ pc[c] = "bf_call"
  /\ \E events \in rest_backfill(c, bf[c].start, bf[c].horizon) :
       bf' = [bf EXCEPT ![c].events = events, ![c].i = 1, ![c].returned = TRUE]
  /\ rest_log' = [rest_log EXCEPT ![c] = Append(@, RestCall(c, FALSE))]
  /\ Goto(c, "bf_iter")
  /\ UNCHANGED <<chains, now, db, svcVars, run_state, he, hfail, submitted, env>>

\* mutant of BackfillNext: the returned list is gone through backwards
BackfillNextReversed(c) ==
  /\ pc[c] = "bf_iter"
  /\ IF bf[c].i > Len(bf[c].events)
     THEN /\ bf' = [bf EXCEPT ![c].events = <<>>, ![c].i = 1]
          /\ EnterStream(c)
          /\ UNCHANGED <<he, seen_cache, rate_tokens, refill_elapsed, submitted>>
     ELSE /\ bf' = [bf EXCEPT ![c].i = @ + 1]
          /\ HandleEntry(c, bf[c].events[Len(bf[c].events) - bf[c].i + 1], "bf")
  /\ UNCHANGED <<chains, now, db, counters, run_state, rest_log, hfail, env>>

\* for e in events: await self._handle_event(e); then return
BackfillNext(c) ==
  /\ pc[c] = "bf_iter"
  /\ IF bf[c].i > Len(bf[c].events)
     THEN /\ bf' = [bf EXCEPT ![c].events = <<>>, ![c].i = 1]
          /\ EnterStream(c)
          /\ UNCHANGED <<he, seen_cache, rate_tokens, refill_elapsed, submitted>>
     ELSE /\ bf' = [bf EXCEPT ![c].i = @ + 1]
          /\ HandleEntry(c, bf[c].events[bf[c].i], "bf")
  /\ UNCHANGED <<chains, now, db, counters, run_state, rest_log, hfail, env>>

\* ---------------------------------------------------- _stream_with_failover
\* primary.stream_transfers(chain) raises
StreamOpenRaises(c) ==
  /\ pc[c] = "connect"
  /\ env.open_fails > 0
  /\ env' = [env EXCEPT !.open_fails = @ - 1]
  /\ StreamExcept(c, TRUE)
  /\ UNCHANGED <<chains, now, db, svcVars, run_state, bf, he, rest_log, hfail,
                 submitted>>

\* primary.stream_transfers(chain) returns and the generator yields it: the
\* first yield hands the sequence to _run_chain, a second yield (after an
\* exception was thrown into the generator) makes the context manager raise
\* RuntimeError("generator didn't stop after athrow()")
StreamOpenReturns(c) ==
  /\ pc[c] = "connect"
  /\ IF sc[c].yielded
     THEN /\ pc' = [pc EXCEPT ![c] = "failed"]
          /\ UNCHANGED sc
     ELSE /\ pc' = [pc EXCEPT ![c] = "s_next"]
          /\ sc' = [sc EXCEPT ![c].yielded = TRUE]
  /\ UNCHANGED <<chains, now, db, svcVars, run_state, bf, he, sleep_left,
                 rest_log, slog, hfail, submitted, env>>

\* mutant of BackoffDone: the controller gives up once attempt reaches the limit
BackoffDoneGivesUp(c) ==
  /\ pc[c] = "backoff"
  /\ sleep_left[c] = 0
  /\ LET attempt == sc[c].attempt + 1
     IN  /\ sc' = [sc EXCEPT ![c].attempt = attempt]
         /\ pc' = [pc EXCEPT ![c] = IF attempt >= cfg.retry_max_attempts
                                    THEN "failed" ELSE "connect"]
  /\ UNCHANGED <<chains, now, db, svcVars, run_state, bf, he, sleep_left,
                 rest_log, slog, hfail, submitted, env>>

\* mutant of BackoffDone: the swap comes one failure late (> instead of >=)
BackoffDoneLate(c) ==
  /\ pc[c] = "backoff"
  /\ sleep_left[c] = 0
  /\ LET attempt == sc[c].attempt + 1
     IN  sc' = [sc EXCEPT ![c] =
                  IF attempt > cfg.retry_max_attempts
                  THEN [ @ EXCEPT !.primary = sc[c].fallback,
                                  !.fallback = sc[c].primary,
                                  !.attempt = 0 ]
                  ELSE [ @ EXCEPT !.attempt = attempt ]]
  /\ pc' = [pc EXCEPT ![c] = "connect"]
  /\ UNCHANGED <<chains, now, db, svcVars, run_state, bf, he, sleep_left,
                 rest_log, slog, hfail, submitted, env>>

\* mutant of BackoffDone: the swap is made for every chain's controller
BackoffDoneSharedSwap(c) ==
  /\ pc[c] = "backoff"
  /\ sleep_left[c] = 0
  /\ LET attempt == sc[c].attempt + 1
     IN  sc' = IF attempt >= cfg.retry_max_attempts
               THEN [ d \in chains |->
                        [ sc[d] EXCEPT !.primary = sc[d].fallback,
                                       !.fallback = sc[d].primary,
                                       !.attempt = IF d = c THEN 0 ELSE @ ] ]
               ELSE [ sc EXCEPT ![c].attempt = attempt ]
  /\ pc' = [pc EXCEPT ![c] = "connect"]
  /\ UNCHANGED <<chains, now, db, svcVars, run_state, bf, he, sleep_left,
                 rest_log, slog, hfail, submitted, env>>

\* after the sleep: attempt += 1, and the swap once attempt reaches the limit
BackoffDone(c) ==
  /\ pc[c] = "backoff"
  /\ sleep_left[c] = 0
  /\ LET attempt == sc[c].attempt + 1
     IN  sc' = [sc EXCEPT ![c] =
                  IF attempt >= cfg.retry_max_attempts
                  THEN [ @ EXCEPT !.primary = sc[c].fallback,
                                  !.fallback = sc[c].primary,
                                  !.attempt = 0 ]
                  ELSE [ @ EXCEPT !.attempt = attempt ]]
  /\ pc' = [pc EXCEPT ![c] = "connect"]
  /\ UNCHANGED <<chains, now, db, svcVars, run_state, bf, he, sleep_left,
                 rest_log, slog, hfail, submitted, env>>

\* --------------------------------------------------------------- _run_chain
\* async for e in stream: the live sequence yields an event
StreamNext(c) ==
  /\ pc[c] = "s_next"
  /\ env.stream > 0
  /\ env' = [env EXCEPT !.stream = @ - 1]
  /\ \E e \in env.feed[c] : HandleEntry(c, e, "stream")
  /\ UNCHANGED <<chains, now, db, counters, run_state, bf, rest_log, hfail>>

\* the live sequence ends: the body and the context manager exit normally
StreamEnds(c) ==
  /\ pc[c] = "s_next"
  /\ pc' = [pc EXCEPT ![c] = "done"]
  /\ UNCHANGED <<chains, now, db, svcVars, run_state, bf, sc, he, sleep_left,
                 rest_log, slog, hfail, submitted, env>>

\* the live sequence raises while iterated: the exception is thrown into the
\* generator of _stream_with_failover at its yield
StreamRaises(c) ==
  /\ pc[c] = "s_next"
  /\ env.mid_fails > 0
  /\ env' = [env EXCEPT !.mid_fails = @ - 1]
  /\ StreamExcept(c, FALSE)
  /\ UNCHANGED <<chains, now, db, svcVars, run_state, bf, he, rest_log, hfail,
                 submitted>>

\* ---------------------------------------------------------------------- run
\* mutant of Run: the chain tasks open their stream without backfilling first
RunStreamsFirst ==
  /\ run_state = "new"
  /\ run_state' = "running"
  /\ pc' = [c \in chains |-> "connect"]
  /\ UNCHANGED <<chains, now, db, svcVars, bf, sc, he, sleep_left, rest_log, slog,
                 hfail, submitted, env>>

\* tasks = [asyncio.create_task(self._run_chain(chain)) ...]
Run ==
  /\ run_state = "new"
  /\ run_state' = "running"
  /\ pc' = [c \in chains |-> "bf_plan"]
  /\ UNCHANGED <<chains, now, db, svcVars, bf, sc, he, sleep_left, rest_log, slog,
                 hfail, submitted, env>>

\* await asyncio.gather(*tasks): the first exception of a task is propagated
\* at once; the other tasks are not cancelled
GatherRaises ==
  /\ run_state = "running"
  /\ \E c \in chains : pc[c] = "failed"
  /\ run_state' = "raised"
  /\ UNCHANGED <<chains, now, db, svcVars, pc, bf, sc, he, sleep_left, rest_log,
                 slog, hfail, submitted, env>>

GatherReturns ==
  /\ run_state = "running"
  /\ \A c \in chains : pc[c] = "done"
  /\ run_state' = "returned"
  /\ UNCHANGED <<chains, now, db, svcVars, pc, bf, sc, he, sleep_left, rest_log,
                 slog, hfail, submitted, env>>

\* -------------------------------------------------------------- environment
RefillSaturation == TicksPerSecond

Tick ==
  /\ \/ now < MaxTime
     \/ refill_elapsed < RefillSaturation
     \/ \E c \in chains : sleep_left[c] > 0
  /\ now' = Min(now + 1, MaxTime)
  /\ refill_elapsed' = Min(refill_elapsed + 1, RefillSaturation)
  /\ sleep_left' = [c \in chains |-> Max(sleep_left[c] - 1, 0)]
  /\ UNCHANGED <<chains, db, seen_cache, rate_tokens, counters, run_state,
                 pc, bf, sc, he, rest_log, slog, hfail, submitted, env>>

Next ==
  \/ Run
  \/ GatherRaises
  \/ GatherReturns
  \/ Tick
  \/ \E c \in chains : BackfillPlan(c)
  \/ \E c \in chains : RestBackfillRaises(c)
  \/ \E c \in chains : RestBackfillReturns(c)
  \/ \E c \in chains : BackfillNext(c)
  \/ \E c \in chains : RateLimitRetry(c)
  \/ \E c \in chains : InsertTransfer(c)
  \/ \E c \in chains : UpsertDebit(c)
  \/ \E c \in chains : UpsertCredit(c)
  \/ \E c \in chains : StoreRaises(c)
  \/ \E c \in chains : StreamOpenRaises(c)
  \/ \E c \in chains : StreamOpenReturns(c)
  \/ \E c \in chains : BackoffDone(c)
  \/ \E c \in chains : StreamNext(c)
  \/ \E c \in chains : StreamEnds(c)
  \/ \E c \in chains : StreamRaises(c)

Spec == Init /\ [][Next]_vars

SpecFailover == InitFailover /\ [][Next]_vars

SpecChains == InitChains /\ [][Next]_vars

SpecChainsFailover == InitChainsFailover /\ [][Next]_vars

\* the event loop resumes a task whose sleep is over, and time passes
FairSpecFailover ==
  /\ SpecFailover
  /\ WF_vars(Tick)
  /\ \A c \in AllChains : WF_vars(c \in chains /\ BackoffDone(c))

\* ----------------------------------------------------------------- claims
Running(c) == pc[c] \notin {"idle", "done", "failed"}

\* no admission is in progress and no store call has raised
Settled == \A c \in chains : he[c].e = None /\ hfail[c] = {}

StoredKeys == DOMAIN db.transfers

LowerKey(k) == <<Lower(k[1]), Lower(k[2]), Lower(k[3]), Lower(k[4])>>

\* the balance rows in the store that were derived from the transfer row k
BalanceRowsOf(k) ==
  { b \in DOMAIN db.balances :
      /\ db.balances[b].raw = db.transfers[k].raw
      /\ db.balances[b].provenance = db.transfers[k].provenance }

\* the identity has no variant in another letter case in the store or among
\* the submitted events
NoCaseVariant(k) ==
  \A k2 \in DOMAIN submitted :
    (k2 # k /\ LowerKey(k2) = LowerKey(k)) => (submitted[k2] = 0 /\ k2 \notin StoredKeys)

\* C1: an event submitted twice with the same (chain, tx_hash, from, to),
\* through backfill, stream or both, leaves exactly one transfer row and
\* exactly two balance-delta rows of it in the store.
C1_IdempotentAdmission ==
  \A k \in DOMAIN submitted :
    (submitted[k] >= 2 /\ Settled /\ NoCaseVariant(k)) =>
      /\ k \in StoredKeys
      /\ Cardinality({k2 \in StoredKeys : LowerKey(k2) = LowerKey(k)}) = 1
      /\ Cardinality(BalanceRowsOf(k)) = 2

\* C2: when the admission cache does not hold the key and the store holds a
\* transfer whose identity equals the event's case-insensitively,
\* insert_transfer reports a collision (returns false).
C2_StoreDedupCaseInsensitive ==
  \A c \in chains :
    (pc[c] = "h_insert" /\ \E k \in StoredKeys : LowerKey(k) = _event_key(he[c].e[1]))
      => ~insert_transfer(db, he[c].e[1]).inserted

\* C3: once insert_transfer or upsert_balance has raised in an admission of a
\* chain, on the backfill or the stream path, the chain's task is terminated
\* (it makes no further provider or store call).
C3_PersistenceFailureFatal ==
  \A c \in chains : hfail[c] # {} => pc[c] = "failed"

\* the provider the n-th open attempt (n = 0, 1, ...) must target
ExpectedTarget(n) ==
  IF (n \div cfg.retry_max_attempts) % 2 = 0 THEN _primary_idx ELSE 1 - _primary_idx

InRetryLoop(c) == c \in chains /\ pc[c] \in {"connect", "backoff"} /\ ~sc[c].yielded

\* C4: the failover controller has no terminal failure state: a task fails
\* only after a live sequence was handed over; a failed open is followed by a
\* backoff and, once the sleep is over, by another open; the retry loop is
\* left only by handing over an opened sequence.
C4_NoTerminalFailure ==
  /\ [](\A c \in chains : pc[c] = "failed" => sc[c].yielded)
  /\ [][\A c \in chains :
          InRetryLoop(c) =>
            \/ InRetryLoop(c)'
            \/ pc'[c] = "s_next" /\ sc'[c].yielded]_vars
  /\ \A c \in AllChains :
       (c \in chains /\ pc[c] = "backoff") ~> (c \in chains /\ pc[c] = "connect")

C4_Witness ==
  \E c \in chains : slog[c].open_fails >= 3 /\ pc[c] = "s_next"

\* C5: while no stream has been opened, the provider targeted after f
\* consecutive failed opens is the initial primary when f div
\* retry_max_attempts is even and the other provider when it is odd, and the
\* attempt counter is f mod retry_max_attempts.
C5_FailoverSwap ==
  \A c \in chains :
    (pc[c] = "connect" /\ ~sc[c].yielded) =>
      /\ sc[c].primary = ExpectedTarget(slog[c].open_fails)
      /\ sc[c].fallback = 1 - sc[c].primary
      /\ sc[c].attempt = slog[c].open_fails % cfg.retry_max_attempts

C5_Witness ==
  \E c \in chains :
    /\ pc[c] = "connect" /\ ~sc[c].yielded
    /\ slog[c].open_fails = 2 * cfg.retry_max_attempts
    /\ sc[c].primary = _primary_idx

LowerBound(n) == Min(cfg.retry_max_seconds, cfg.retry_base_seconds * (2 ^ n))

\* the delay is the capping of a value in [base*2^n, base*2^n + base]
DelayInRange(b) ==
  /\ b.delay <= cfg.retry_max_seconds
  /\ \E u \in (cfg.retry_base_seconds * (2 ^ b.n)) ..
              (cfg.retry_base_seconds * (2 ^ b.n) + cfg.retry_base_seconds) :
       b.delay = Min(cfg.retry_max_seconds, u)

\* C6 as stated: every delay is in range, and the lower bound
\* min(max_seconds, base*2^n) never decreases from one failed attempt of a
\* chain to the next.
C6_BackoffNeverDecreases ==
  \A c \in chains :
    LET b == slog[c].backoffs
    IN  /\ \A i \in 1..Len(b) : DelayInRange(b[i])
        /\ Len(b) = 2 => LowerBound(b[2].n) >= LowerBound(b[1].n)

\* C6 amended: every delay is in range, and the lower bound never decreases
\* from one failed attempt to the next while both target the same provider
\* (the failover swap restarts the attempt counter at 0).
C6_BackoffGrowth ==
  \A c \in chains :
    LET b == slog[c].backoffs
    IN  /\ \A i \in 1..Len(b) : DelayInRange(b[i])
        /\ (Len(b) = 2 /\ b[2].provider = b[1].provider) =>
             /\ b[2].n = b[1].n + 1
             /\ LowerBound(b[2].n) >= LowerBound(b[1].n)
        /\ (Len(b) = 2 /\ b[2].provider # b[1].provider) => b[2].n = 0

C6_Witness ==
  \E c \in chains :
    LET b == slog[c].backoffs
    IN  /\ Len(b) = 2
        /\ b[2].provider = b[1].provider
        /\ b[2].delay = cfg.retry_max_seconds
        /\ b[1].delay < b[2].delay

\* C7: _backfill requests only [start, horizon) with horizon = now - lag,
\* start >= now - window and, when a last stored timestamp T exists,
\* start >= T; when start >= horizon no rest_backfill call is made.
C7_BackfillWindow ==
  \A c \in chains :
    bf[c].planned =>
      /\ bf[c].horizon = bf[c].now - cfg.stream_lag_seconds
      /\ bf[c].start >= bf[c].now - backfill_window
      /\ bf[c].last # None => bf[c].start >= bf[c].last[1]
      /\ \A i \in 1..Len(rest_log[c]) :
           /\ rest_log[c][i].start = bf[c].start
           /\ rest_log[c][i].end = bf[c].horizon
           /\ rest_log[c][i].start < rest_log[c][i].end
      /\ bf[c].start >= bf[c].horizon => rest_log[c] = <<>>

C7_Witness ==
  \E c \in chains :
    /\ bf[c].planned
    /\ bf[c].last # None
    /\ bf[c].start > bf[c].now - backfill_window
    /\ Len(rest_log[c]) = 2

C7_WitnessNoCall ==
  \E c \in chains :
    /\ bf[c].planned
    /\ bf[c].last # None
    /\ bf[c].start >= bf[c].horizon
    /\ pc[c] = "s_next"

\* C8: for every newly inserted transfer exactly two BalanceUpdates are
\* derived, a debit at the from address and a credit at the to address, and
\* the credit's amount and USD value are the negations of the debit's.
C8_BalanceConservation ==
  \A c \in chains :
    /\ pc[c] \in {"h_debit", "h_credit"} <=> he[c].bu # <<>>
    /\ he[c].bu # <<>> =>
         LET e == he[c].e[1]
             debit == he[c].bu[1]
             credit == he[c].bu[2]
         IN  /\ Len(he[c].bu) = 2
             /\ _tkey(e) \in StoredKeys
             /\ debit.address = e.from_addr /\ credit.address = e.to_addr
             /\ debit.amount <= 0 /\ credit.amount >= 0
             /\ credit.amount = -debit.amount
             /\ credit.usd_value = -debit.usd_value

C8_Witness ==
  \E c \in chains :
    /\ pc[c] = "h_credit"
    /\ he[c].e[1].amount < 0
    /\ he[c].bu[2].amount > 0

\* two events of a list never share an identity: the tuple (chain, tx_hash,
\* from, to) compared case-insensitively
DistinctIdentities(events) ==
  \A i, j \in 1..Len(events) :
    i # j => LowerKey(_tkey(events[i])) # LowerKey(_tkey(events[j]))

Stored(e) == _tkey(e) \in StoredKeys /\ db.transfers[_tkey(e)] = e

\* C9: on a store that held no transfer of the chain, a backfill pass whose
\* provider returned events with pairwise distinct identities, and in which
\* no store call raised, has inserted every event it has gone through: when
\* the pass ends every returned event is a transfer row.
C9_BackfillCompleteness ==
  \A c \in chains :
    ( /\ pc[c] = "bf_iter"
      /\ bf[c].returned /\ bf[c].store_empty
      /\ "bf" \notin hfail[c]
      /\ DistinctIdentities(bf[c].events) ) =>
        \A j \in 1..(bf[c].i - 1) : Stored(bf[c].events[j])

C9_Witness ==
  \E c \in chains :
    /\ pc[c] = "bf_iter"
    /\ bf[c].returned /\ bf[c].store_empty
    /\ "bf" \notin hfail[c]
    /\ DistinctIdentities(bf[c].events)
    /\ Len(bf[c].events) = 2
    /\ bf[c].i = 3
    /\ Cardinality(StoredKeys) = 2

\* C10: run has completed (returned or raised) only when every chain's task
\* has terminated.
C10_RunWaitsForAllChains ==
  run_state \in {"returned", "raised"} => \A c \in chains : ~Running(c)

\* the rows a table of the store holds
Rows(table) == { table[k] : k \in DOMAIN table }

\* C12: stored rows are permanent: every transfer row and every balance-delta
\* row the store holds before a step is still in the store, unchanged, after it.
C12_RowsPermanent ==
  [][ /\ Rows(db.transfers) \subseteq Rows(db'.transfers)
      /\ Rows(db.balances) \subseteq Rows(db'.balances) ]_vars

\* C13: rest_backfill is called on the primary first; the fallback is called
\* only after the primary's call raised; no provider is called twice and none
\* after a call that returned; when both calls raised the task goes on to
\* open the live stream.
C13_BackfillProviderOrder ==
  \A c \in chains :
    LET calls == rest_log[c]
    IN  /\ Len(calls) <= 2
        /\ Len(calls) >= 1 => calls[1].provider = _select_providers.primary
        /\ Len(calls) = 2 =>
             /\ calls[1].raised
             /\ calls[2].provider = _select_providers.fallback
        /\ (Len(calls) = 2 /\ calls[2].raised) =>
             pc[c] \in {"connect", "backoff", "s_next", "h_sleep", "h_insert",
                        "h_debit", "h_credit", "done", "failed"}

\* C14: once a live sequence was handed to _run_chain, the controller neither
\* sleeps in a backoff nor opens another stream nor changes its attempt
\* counter or its providers: a failure while the sequence is consumed ends
\* the task.
C14_MidStreamOutsideRetry ==
  \A c \in chains :
    sc[c].yielded =>
      /\ pc[c] \notin {"backoff", "connect"}
      /\ sc[c].attempt = 0 \/ slog[c].open_fails > 0

\* C15: when insert_transfer reports that the row already existed, the
\* admission ends there: the store is left as it was (no balance delta is
\* written), events_out is not incremented and _handle_event returns.
C15_CollisionStopsAdmission ==
  [][ \A c \in chains :
        ( /\ pc[c] = "h_insert"
          /\ ~insert_transfer(db, he[c].e[1]).inserted
          /\ pc'[c] # "h_insert"
          /\ env'.store_fails = env.store_fails ) =>
            /\ db' = db
            /\ counters'.events_out = counters.events_out
            /\ he'[c] = NoHandle
            /\ pc'[c] = ReturnLabel(he[c].caller) ]_vars

\* an admission ended at the store's collision report: events_in counts it,
\* events_out does not
C15_Witness ==
  /\ counters.events_in > counters.events_out
  /\ \A c \in chains : he[c].e = None /\ hfail[c] = {}

\* the step hands event e of chain c to _handle_event
Handed(c, e) ==
  \/ /\ pc[c] = "bf_iter"
     /\ bf[c].i <= Len(bf[c].events)
     /\ e = bf[c].events[bf[c].i]
     /\ bf'[c].events = bf[c].events
     /\ bf'[c].i = bf[c].i + 1
  \/ /\ pc[c] = "s_next"
     /\ env'.stream = env.stream - 1
     /\ submitted'[_tkey(e)] # submitted[_tkey(e)]

\* the step ends an admission of chain c by a normal return of _handle_event
Returned(c) ==
  \/ \E e \in AllEvents : Handed(c, e) /\ he'[c].e = None
  \/ he[c].e # None /\ he'[c].e = None /\ env'.store_fails = env.store_fails

\* C16: every event handed to _handle_event, whether new, a duplicate found
\* in the admission cache or a duplicate found by the store, gets exactly one
\* events_in increment: the step in which its admission returns adds one to
\* events_in, and no other step changes the counter.
C16_EventsInAlways ==
  [][ /\ \A c \in chains :
           Returned(c) => counters'.events_in = counters.events_in + 1
      /\ (\A c \in chains : ~Returned(c)) =>
           counters'.events_in = counters.events_in ]_vars

\* C17: when the key of the event handed in is already in the admission
\* cache, _handle_event returns at once and leaves the store, the cache, the
\* rate limiter and the counters unchanged; no store call and no acquire is
\* started.
C17_CacheHitNoOp ==
  [][ \A c \in chains : \A e \in AllEvents :
        (Handed(c, e) /\ _event_key(e) \in seen_cache) =>
          /\ db' = db
          /\ seen_cache' = seen_cache
          /\ rate_tokens' = rate_tokens /\ refill_elapsed' = refill_elapsed
          /\ counters' = counters
          /\ he'[c] = NoHandle
          /\ sleep_left' = sleep_left
          /\ pc'[c] = pc[c] ]_vars

\* an identity was handed in a second time (the second call finds the key
\* the first one cached) and the call has returned
C17_Witness ==
  /\ \E k \in DOMAIN submitted : submitted[k] = 2 /\ LowerKey(k) \in seen_cache
  /\ \A c \in chains : he[c].e = None /\ hfail[c] = {}
  /\ Cardinality(StoredKeys) = 1 /\ Cardinality(seen_cache) = 1
  /\ counters.events_in = 1

InHandler(c) == pc[c] \in {"h_sleep", "h_insert", "h_debit", "h_credit"}

InBackfill(c) ==
  \/ pc[c] \in {"bf_call", "bf_iter"}
  \/ InHandler(c) /\ he[c].caller = "bf"

InStreaming(c) ==
  \/ pc[c] \in {"connect", "backoff", "s_next"}
  \/ InHandler(c) /\ he[c].caller = "stream"

\* C18: each chain task runs the backfill planner once and before anything
\* else; while the backfill is under way no stream was opened or attempted
\* for the chain; opening attempts and live admissions happen only after
\* _backfill has returned.  Nothing relates the phases of different chains.
C18_BackfillBeforeStream ==
  /\ [](\A c \in chains :
          /\ bf[c].planned <=> pc[c] \notin {"idle", "bf_plan"}
          /\ InBackfill(c) =>
               /\ ~sc[c].yielded
               /\ slog[c] = NoSlog
               /\ sc[c] = NoStream
          /\ (InStreaming(c) \/ pc[c] \in {"done", "failed"}) =>
               /\ bf[c].planned
               /\ bf[c].events = <<>>)
  /\ [][\A c \in chains :
          /\ pc'[c] = "bf_plan" => pc[c] \in {"idle", "bf_plan"}
          /\ InStreaming(c) => ~InBackfill(c)']_vars

\* one chain admits a live event while another chain is still backfilling
C18_Witness ==
  \E c1, c2 \in chains :
    /\ pc[c1] = "h_insert" /\ he[c1].caller = "stream"
    /\ pc[c2] = "bf_iter" /\ bf[c2].events # <<>>

\* C19: the admissions of a chain follow the provider's order.  The event
\* under admission on the backfill path is the one just before the list
\* index, the index moves forward one event at a time, the event admitted on
\* either path is the one handed in, and an event is handed in only when no
\* admission of the chain is in progress.
C19_AdmissionOrder ==
  /\ [](\A c \in chains :
          /\ InHandler(c) <=> he[c].e # None
          /\ (InHandler(c) /\ he[c].caller = "bf") =>
               /\ bf[c].i \in 2..(Len(bf[c].events) + 1)
               /\ he[c].e = Some(bf[c].events[bf[c].i - 1]))
  /\ [][\A c \in chains :
          /\ (bf[c].events # <<>> /\ bf'[c].events = bf[c].events) =>
               bf'[c].i \in {bf[c].i, bf[c].i + 1}
          /\ \A e \in AllEvents :
               Handed(c, e) =>
                 /\ he[c].e = None
                 /\ he'[c].e # None => _tkey(he'[c].e[1]) = _tkey(e)
                 /\ (he'[c].e # None /\ pc[c] = "bf_iter") => he'[c].e = Some(e)]_vars

\* the second event of a returned list is inserted after the first one was
\* stored with both balance rows
C19_Witness ==
  \E c \in chains :
    /\ pc[c] = "h_insert" /\ he[c].caller = "bf"
    /\ Len(bf[c].events) = 2 /\ bf[c].i = 3
    /\ bf[c].events[1] # bf[c].events[2]
    /\ Stored(bf[c].events[1])
    /\ ~Stored(bf[c].events[2])

\* the step completes an acquire of chain c
Acquired(c) == pc[c] # "h_insert" /\ pc'[c] = "h_insert"

\* C20: the token count stays within 0..rate_limit_per_sec; a step completes
\* at most one acquire, and that acquire leaves one token less than the
\* (possibly refilled) count it found; no other step takes a token away; and
\* tokens are added only by a refill for elapsed time.
C20_TokenBucketIntegrity ==
  /\ [](rate_tokens \in 0..cfg.rate_limit_per_sec)
  /\ [][ /\ Cardinality({c \in chains : Acquired(c)}) <= 1
         /\ \A c \in chains :
              Acquired(c) =>
                \E r \in 0..cfg.rate_limit_per_sec :
                  /\ r > 0 => refill_elapsed > 0 /\ refill_elapsed' = 0
                  /\ r = 0 => refill_elapsed' = refill_elapsed
                  /\ rate_tokens' = Min(cfg.rate_limit_per_sec, rate_tokens + r) - 1
         /\ (\A c \in chains : ~Acquired(c)) => rate_tokens' >= rate_tokens
         /\ rate_tokens' > rate_tokens =>
              refill_elapsed > 0 /\ refill_elapsed' = 0 ]_vars

\* one chain holds the token it took while another chain waits for a refill
C20_Witness ==
  \E c1, c2 \in chains :
    /\ c1 # c2
    /\ pc[c1] = "h_insert"
    /\ pc[c2] = "h_sleep"
    /\ rate_tokens = 0

\* the timestamps of the transfer rows a store holds for a chain
StoredTs(store, chain) ==
  { store.transfers[k].ts : k \in {x \in DOMAIN store.transfers :
                                     store.transfers[x].chain = chain} }

\* C21: latest_transfer_ts(chain) is absent when the store holds no transfer
\* of the chain and is the maximum timestamp of the chain's transfers
\* otherwise; a step never lowers or removes it, and a step that adds no
\* transfer of the chain (a rejected duplicate, an insert on another chain)
\* leaves it as it was.
C21_LatestTimestamp ==
  /\ [](\A ch \in AllChains :
          LET ts == StoredTs(db, ch)
              last == latest_transfer_ts(db, ch)
          IN  /\ ts = {} <=> last = None
              /\ ts # {} => last[1] \in ts /\ \A t \in ts : t <= last[1])
  /\ [][\A ch \in AllChains :
          LET before == latest_transfer_ts(db, ch)
              after == latest_transfer_ts(db', ch)
          IN  /\ before # None => after # None /\ after[1] >= before[1]
              /\ StoredTs(db', ch) = StoredTs(db, ch) => after = before]_vars

\* the store holds transfers of a chain with different timestamps, and a
\* duplicate of one of them was rejected by the store
C21_Witness ==
  /\ Cardinality(StoredTs(db, "eth")) = 2
  /\ latest_transfer_ts(db, "eth") = Some(1)
  /\ counters.events_in > counters.events_out

\* the step swaps the providers of chain c's stream controller
Swapped(c) == sc'[c].primary = sc[c].fallback /\ sc'[c].primary # sc[c].primary

\* C22: a failover swap changes only the controller of the chain it was made
\* for.  The controllers of the other chains keep their providers and their
\* attempt counter in the step of the swap; a controller that starts, before
\* or after another chain's swap, starts with the service-wide primary; and
\* every backfill run asks the service-wide primary first and the other
\* provider second.
C22_SwapIsLocal ==
  /\ [][\A c \in chains :
          Swapped(c) => \A d \in chains \ {c} : sc'[d] = sc[d]]_vars
  /\ [][\A d \in chains :
          (pc[d] \notin {"connect", "backoff"} /\ pc'[d] = "connect") =>
             /\ sc'[d].primary = _primary_idx
             /\ sc'[d].fallback = 1 - _primary_idx]_vars
  /\ [](\A d \in chains :
          \A i \in 1..Len(rest_log[d]) :
            rest_log[d][i].provider = IF i = 1 THEN _primary_idx
                                               ELSE 1 - _primary_idx)

\* one chain's controller has swapped while the other chain's controller
\* waits to open its stream on the service-wide primary after its backfill
C22_Witness ==
  \E c, d \in chains :
    /\ c # d
    /\ sc[c].primary = 1 - _primary_idx /\ pc[c] = "connect"
    /\ pc[d] = "connect" /\ sc[d].primary = _primary_idx
    /\ slog[d] = NoSlog /\ rest_log[d] # <<>>

NoAdmissionInProgress == \A c \in chains : he[c].e = None

\* C23: whenever no admission is in progress, every identity key in the
\* admission cache has a transfer row in the store (so an event whose
\* insert_transfer raised would not be suppressed when it is handed in again).
C23_CacheImpliesStored ==
  NoAdmissionInProgress =>
    \A key \in seen_cache : \E k \in StoredKeys : LowerKey(k) = key

\* C24: whenever no admission is in progress, every transfer row in the store
\* has a balance-delta row at its debit key and at its credit key; a transfer
\* row without a balance row at one of its two keys never remains.
C24_LegsWithTransfer ==
  NoAdmissionInProgress =>
    \A k \in StoredKeys :
      \A i \in 1..2 :
        _bkey(BalanceLegs(db.transfers[k])[i]) \in DOMAIN db.balances

\* every admission of the instance so far has returned normally
AllAdmissionsCompleted == \A c \in chains : he[c].e = None /\ hfail[c] = {}

\* the store held no transfer of the service's chains when the instance
\* started: every transfer row was created by this instance
StartedEmpty == \A c \in chains : bf[c].planned /\ bf[c].store_empty

\* C25: events_out never exceeds events_in; a step adds to events_out exactly
\* the admissions that return in it after their insert_transfer returned
\* true, and a step adds to the transfer rows exactly the inserts that return
\* true in it; so, once all admissions have completed, events_out is the
\* number of transfer rows the instance created.
C25_CounterConsistency ==
  /\ [](counters.events_out <= counters.events_in)
  /\ []((AllAdmissionsCompleted /\ StartedEmpty) =>
          counters.events_out = Cardinality(StoredKeys))
  /\ [][ /\ counters'.events_out - counters.events_out =
              Cardinality({c \in chains : pc[c] = "h_credit" /\ Returned(c)})
         /\ Cardinality(DOMAIN db'.transfers) - Cardinality(StoredKeys) =
              Cardinality({c \in chains : pc[c] = "h_insert" /\ pc'[c] = "h_debit"})
       ]_vars

\* the instance created two transfer rows and also met a duplicate
C25_Witness ==
  /\ AllAdmissionsCompleted /\ StartedEmpty
  /\ counters.events_out = 2
  /\ Cardinality(StoredKeys) = 2
  /\ \E k \in DOMAIN submitted : submitted[k] = 2

====
